---- MODULE Spec2Model ----
(***************************************************************************)
(* State-machine model of the Bot component (src/src/components/Bot.jsx):  *)
(* the message timeline, the submission handler sendMessage with its two   *)
(* routes (single-shot with a file, streaming without), the welcome text   *)
(* effect, speech capture and narration.                                   *)
(*                                                                         *)
(* A text is a sequence of tokens (strings); " " is the whitespace token.  *)
(* Every React state update of the component is applied in the order it is *)
(* issued; a handler runs to its next await without interleaving, so one   *)
(* action is one synchronous segment of a handler.  A handler reads the    *)
(* state values of the render that created it: sendMessage and the speak   *)
(* it calls keep the input, file and voiceMode of the moment of the call   *)
(* for the whole turn.  The markup (lines 178-364) is modelled only as the *)
(* events it wires to the handlers.                                        *)
(***************************************************************************)
EXTENDS Naturals, Sequences, FiniteSets

\* ------------------------------------------------------------------ bounds
MaxTurns == 2        \* accepted submissions in one run
MaxDeltas == 2       \* non-empty chunks one stream delivers
MaxCaptures == 1     \* speech capture sessions started in one run

\* ------------------------------------------------------------------ values
None == "none"
Files == {"f1"}
Inputs == {<<>>, <<" ">>, <<"a">>}      \* what the user can type
\* Chunk texts.  The code reads a chunk only for being empty (line 114), so
\* the k-th chunk of turn t is either empty or a text naming t and k.
ChunkNames ==
  <<  <<"a1", "a2", "a3", "a4">>, <<"b1", "b2", "b3", "b4">>,
      <<"c1", "c2", "c3", "c4">>, <<"d1", "d2", "d3", "d4">> >>
Deltas(t, k) == {<<>>, <<ChunkNames[t][k]>>}
Replies == {<<"r">>}                    \* single-shot reply texts
Transcripts == {<<"a">>}                \* recognised speech

\* line 37-38, abridged to two characters
WelcomeMsg == <<"Hi!", "How can I help you today?">>
\* line 130
ErrorText == <<"Oops! Something went wrong with Gemini API.">>
\* line 78
FileLabel == <<"Sent a file">>

Turns == 1..MaxTurns

VARIABLES
  messages,     \* line 12: the timeline
  input,        \* line 13
  loading,      \* line 14
  welcomeText,  \* line 15
  file,         \* line 16
  voiceMode,    \* line 17
  recording,    \* line 19
  welcomeIndex, \* line 39: index of the welcome effect's closure
  turns,        \* one record per sendMessage call that passed line 76
  sessions,     \* SpeechRecognition sessions that are listening
  captures,     \* history: sessions started so far
  speechQueue,  \* utterances playing or queued in window.speechSynthesis
  lastCall      \* history: "rejected" when the last step was a sendMessage
                \* that returned at line 76, else "other"

vars == <<messages, input, loading, welcomeText, file, voiceMode, recording,
          welcomeIndex, turns, sessions, captures, speechQueue, lastCall>>

\* ------------------------------------------------------------------ helpers
Max(a, b) == IF a >= b THEN a ELSE b

RECURSIVE TrimStart(_)
TrimStart(s) ==
  IF s # <<>> /\ Head(s) = " " THEN TrimStart(Tail(s)) ELSE s

RECURSIVE TrimEnd(_)
TrimEnd(s) ==
  IF s # <<>> /\ s[Len(s)] = " " THEN TrimEnd(SubSeq(s, 1, Len(s) - 1)) ELSE s

\* String.prototype.trim, line 76
Trim(s) == TrimEnd(TrimStart(s))

\* JavaScript truthiness of a string (lines 78, 114)
Truthy(s) == s # <<>>

RECURSIVE Concat(_)
Concat(ds) == IF ds = <<>> THEN <<>> ELSE Head(ds) \o Concat(Tail(ds))

UserMsg(text, f) == [role |-> "user", text |-> text, file |-> f]
BotMsg(text) == [role |-> "bot", text |-> text, file |-> None]
\* an array slot that holds no message: a write past the end of the array
\* (line 118) leaves the slots before it empty.  What the markup does with
\* such a timeline (line 199) is outside this model.
Undefined == [role |-> "undefined", text |-> <<>>, file |-> None]

\* setMessages((prev) => [...prev, m]), lines 79, 99, 109, 128
AppendMessage(prev, m) == Append(prev, m)

\* updated[botIndex] = {...botMessage} on a copy of prev, lines 116-120;
\* botIndex is the 0-based index of the source
WriteAt(prev, botIndex, m) ==
  [k \in 1..Max(Len(prev), botIndex + 1) |->
     IF k = botIndex + 1 THEN m
     ELSE IF k <= Len(prev) THEN prev[k] ELSE Undefined]

IdleTurn ==
  [pc |-> "idle", input |-> <<>>, file |-> None, voiceMode |-> FALSE,
   botIndex |-> 0, text |-> <<>>, delivered |-> <<>>, appended |-> <<>>,
   spoken |-> <<>>, requests |-> 0, reads |-> 0, sent |-> <<>>,
   outcome |-> "none"]

NumTurns == Cardinality({t \in Turns : turns[t].pc # "idle"})

InFlight(t) == turns[t].pc \notin {"idle", "done"}

\* ------------------------------------------------------------------ init
Init ==
  /\ messages = <<>>
  /\ input = <<>>
  /\ loading = FALSE
  /\ welcomeText = <<>>
  /\ file = None
  /\ voiceMode = FALSE
  /\ recording = FALSE
  /\ welcomeIndex = 0
  /\ turns = [t \in Turns |-> IdleTurn]
  /\ sessions = 0
  /\ captures = 0
  /\ speechQueue = 0
  /\ lastCall = "other"

\* ------------------------------------------------------------------ welcome
\* lines 40-47: one tick of the interval
WelcomeTick ==
  /\ welcomeIndex < Len(WelcomeMsg)
  /\ welcomeText' = Append(welcomeText, WelcomeMsg[welcomeIndex + 1])
  /\ welcomeIndex' = welcomeIndex + 1
  /\ messages' = IF welcomeIndex + 1 = Len(WelcomeMsg)
                 THEN <<BotMsg(WelcomeMsg)>>
                 ELSE messages
  /\ lastCall' = "other"
  /\ UNCHANGED <<input, loading, file, voiceMode, recording, turns,
                 sessions, captures, speechQueue>>

\* ------------------------------------------------------------------ inputs
\* line 311
SetInput(v) ==
  /\ input' = v
  /\ input # v
  /\ lastCall' = "other"
  /\ UNCHANGED <<messages, loading, welcomeText, file, voiceMode, recording,
                 welcomeIndex, turns, sessions, captures, speechQueue>>

\* line 320
SetFile(f) ==
  /\ file' = f
  /\ file # f
  /\ lastCall' = "other"
  /\ UNCHANGED <<messages, input, loading, welcomeText, voiceMode, recording,
                 welcomeIndex, turns, sessions, captures, speechQueue>>

\* line 297: the button is rendered only while a file is pending (line 282)
RemoveFile ==
  /\ file # None
  /\ file' = None
  /\ lastCall' = "other"
  /\ UNCHANGED <<messages, input, loading, welcomeText, voiceMode, recording,
                 welcomeIndex, turns, sessions, captures, speechQueue>>

\* ------------------------------------------------------------------ speech
\* speak testing the voiceMode of the latest render
SpeaksLive(t) == voiceMode

\* line 62: speak belongs to the render that created the running sendMessage,
\* so it tests the voiceMode of the moment the turn was submitted
Speaks(t) == turns[t].voiceMode

\* lines 61-66: the queue after speak(text) called by turn t
Speak(t, queue) == IF Speaks(t) THEN queue + 1 ELSE queue

\* the turn's record of what it narrated
Spoken(t, text) ==
  IF Speaks(t) THEN Append(turns[t].spoken, text) ELSE turns[t].spoken

\* the synthesizer finishes an utterance
UtteranceEnd ==
  /\ speechQueue > 0
  /\ speechQueue' = speechQueue - 1
  /\ lastCall' = "other"
  /\ UNCHANGED <<messages, input, loading, welcomeText, file, voiceMode,
                 recording, welcomeIndex, turns, sessions, captures>>

\* lines 69-72
stopSpeaking ==
  /\ speechQueue' = 0
  /\ recording' = FALSE
  /\ lastCall' = "other"
  /\ UNCHANGED <<messages, input, loading, welcomeText, file, voiceMode,
                 welcomeIndex, turns, sessions, captures>>

\* lines 148-153
startListening ==
  /\ captures < MaxCaptures
  /\ captures' = captures + 1
  /\ sessions' = sessions + 1
  /\ recording' = TRUE
  /\ lastCall' = "other"
  /\ UNCHANGED <<messages, input, loading, welcomeText, file, voiceMode,
                 welcomeIndex, turns, speechQueue>>

\* lines 155-158; over = the result is the session's only event
OnResult(transcript, over) ==
  /\ sessions > 0
  /\ input' = transcript
  /\ voiceMode' = TRUE
  /\ sessions' = IF over THEN sessions - 1 ELSE sessions
  /\ UNCHANGED captures
  /\ lastCall' = "other"
  /\ UNCHANGED <<messages, loading, welcomeText, file, recording,
                 welcomeIndex, turns, speechQueue>>

\* lines 160-163
OnError ==
  /\ sessions > 0
  /\ recording' = FALSE
  /\ sessions' = sessions - 1
  /\ UNCHANGED captures
  /\ lastCall' = "other"
  /\ UNCHANGED <<messages, input, loading, welcomeText, file, voiceMode,
                 welcomeIndex, turns, speechQueue>>

\* lines 165-167
OnEnd ==
  /\ sessions > 0
  /\ recording' = FALSE
  /\ sessions' = sessions - 1
  /\ UNCHANGED captures
  /\ lastCall' = "other"
  /\ UNCHANGED <<messages, input, loading, welcomeText, file, voiceMode,
                 welcomeIndex, turns, speechQueue>>

\* ------------------------------------------------------------------ sendMessage
\* line 76 without the trim
RejectsUntrimmed(in, f) == ~Truthy(in) /\ f = None

\* line 76
Rejects(in, f) == ~Truthy(Trim(in)) /\ f = None

\* line 78
UserText(in) == IF Truthy(in) THEN in ELSE FileLabel

\* a file read whose promise never settles (no onload handler)
FirstPcNeverSettles(f) == IF f # None THEN "reading" ELSE "requesting"

\* line 86: the route, decided by the file of the submitting render
FirstPc(f) == IF f # None THEN "encoding" ELSE "requesting"

\* lines 88-96: the single-shot request, built from the input and file of
\* the render that created the running sendMessage
SingleShot(in, f) == [kind |-> "single", prompt |-> in, file |-> f]

\* line 102: the streaming request
StreamRequest(in) == [kind |-> "stream", prompt |-> in, file |-> None]

\* the request built from the file pending when the file read resolves
RequestFileLive(t) == file

\* lines 91-93: the file of the request is the file the turn was submitted with
RequestFile(t) == turns[t].file

\* finally without line 135
FinallyKeepsVoice ==
  /\ file' = None
  /\ loading' = FALSE
  /\ UNCHANGED voiceMode

\* lines 132-136
Finally ==
  /\ file' = None
  /\ loading' = FALSE
  /\ voiceMode' = FALSE

\* a catch that only logs the error
CatchSilent(t) ==
  /\ turns' = [turns EXCEPT ![t] = [@ EXCEPT !.pc = "done", !.outcome = "fail"]]
  /\ Finally
  /\ lastCall' = "other"
  /\ UNCHANGED <<messages, input, welcomeText, recording, welcomeIndex,
                 sessions, captures, speechQueue>>

\* a catch that issues the failed read or request once more
CatchRetries(t) ==
  IF turns[t].reads + turns[t].requests < 2
  THEN /\ turns' = [turns EXCEPT ![t] =
            [@ EXCEPT !.pc = FirstPc(turns[t].file),
                      !.reads = IF turns[t].file # None THEN @ + 1 ELSE @,
                      !.requests = IF turns[t].file # None THEN @ ELSE @ + 1]]
       /\ lastCall' = "other"
       /\ UNCHANGED <<messages, input, loading, welcomeText, file, voiceMode,
                      recording, welcomeIndex, sessions, captures, speechQueue>>
  ELSE /\ messages' = AppendMessage(messages, BotMsg(ErrorText))
       /\ turns' = [turns EXCEPT ![t] =
            [@ EXCEPT !.pc = "done", !.outcome = "fail",
                      !.appended = Append(@, ErrorText)]]
       /\ Finally
       /\ lastCall' = "other"
       /\ UNCHANGED <<input, welcomeText, recording, welcomeIndex, sessions,
                      captures, speechQueue>>

\* lines 126-131, then finally
Catch(t) ==
  /\ messages' = AppendMessage(messages, BotMsg(ErrorText))
  /\ turns' = [turns EXCEPT ![t] =
       [@ EXCEPT !.pc = "done", !.outcome = "fail",
                 !.appended = Append(@, ErrorText)]]
  /\ Finally
  /\ lastCall' = "other"
  /\ UNCHANGED <<input, welcomeText, recording, welcomeIndex, sessions, captures,
                 speechQueue>>

\* lines 75-102, up to the first await
sendMessage ==
  \/ /\ Rejects(input, file)
     /\ lastCall' = "rejected"
     /\ UNCHANGED <<messages, input, loading, welcomeText, file, voiceMode,
                    recording, welcomeIndex, turns, sessions, captures, speechQueue>>
  \/ /\ ~Rejects(input, file)
     /\ NumTurns < MaxTurns
     /\ messages' = AppendMessage(messages, UserMsg(UserText(input), file))
     /\ input' = <<>>
     /\ loading' = TRUE
     /\ turns' = [turns EXCEPT ![NumTurns + 1] =
          [@ EXCEPT !.pc = FirstPc(file), !.input = input, !.file = file,
                    !.voiceMode = voiceMode,
                    !.reads = IF file # None THEN 1 ELSE 0,
                    !.requests = IF file # None THEN 0 ELSE 1,
                    !.sent = IF file # None THEN <<>>
                             ELSE <<StreamRequest(input)>>]]
     /\ lastCall' = "other"
     /\ UNCHANGED <<welcomeText, file, voiceMode, recording, welcomeIndex,
                    sessions, captures, speechQueue>>

\* lines 352-356: the send button is disabled while loading
ClickSend == ~loading /\ sendMessage

\* lines 140-145: Enter without Shift
handleKeyDown == sendMessage

\* lines 52-58, 87: the file read succeeds; line 88 issues the request
EncodeResolve(t) ==
  /\ turns[t].pc = "encoding"
  /\ turns' = [turns EXCEPT ![t] =
       [@ EXCEPT !.pc = "generating", !.requests = @ + 1,
                 !.sent = Append(@, SingleShot(turns[t].input,
                                               RequestFile(t)))]]
  /\ lastCall' = "other"
  /\ UNCHANGED <<messages, input, loading, welcomeText, file, voiceMode,
                 recording, welcomeIndex, sessions, captures, speechQueue>>

\* line 57: the file read fails
EncodeReject(t) ==
  /\ turns[t].pc = "encoding"
  /\ Catch(t)

\* lines 98-100, then finally
GenerateOk(t, reply) ==
  /\ turns[t].pc = "generating"
  /\ messages' = AppendMessage(messages, BotMsg(reply))
  /\ speechQueue' = Speak(t, speechQueue)
  /\ turns' = [turns EXCEPT ![t] =
       [@ EXCEPT !.pc = "done", !.outcome = "ok", !.text = reply,
                 !.appended = Append(@, reply),
                 !.spoken = Spoken(t, reply)]]
  /\ Finally
  /\ lastCall' = "other"
  /\ UNCHANGED <<input, welcomeText, recording, welcomeIndex, sessions, captures>>

\* line 88 throws
GenerateFail(t) ==
  /\ turns[t].pc = "generating"
  /\ Catch(t)

\* lines 102-110: the request returns a stream; the empty reply is appended
StreamOpen(t) ==
  /\ turns[t].pc = "requesting"
  /\ messages' = AppendMessage(messages, BotMsg(<<>>))
  /\ turns' = [turns EXCEPT ![t] =
       [@ EXCEPT !.pc = "streaming", !.botIndex = Len(messages),
                 !.appended = Append(@, <<>>)]]
  /\ lastCall' = "other"
  /\ UNCHANGED <<input, loading, welcomeText, file, voiceMode, recording,
                 welcomeIndex, sessions, captures, speechQueue>>

\* line 102 throws
RequestFail(t) ==
  /\ turns[t].pc = "requesting"
  /\ Catch(t)

\* line 115
GrowText(text, chunkText) == text \o chunkText

\* lines 112-121: one chunk of the stream; delivered records the non-empty
\* chunks, an empty one changes nothing (line 114)
Chunk(t, chunkText) ==
  /\ turns[t].pc = "streaming"
  /\ Len(turns[t].delivered) < MaxDeltas
  /\ IF Truthy(chunkText)
     THEN LET text == GrowText(turns[t].text, chunkText) IN
          /\ messages' = WriteAt(messages, turns[t].botIndex, BotMsg(text))
          /\ turns' = [turns EXCEPT ![t] =
               [@ EXCEPT !.text = text,
                         !.delivered = Append(@, chunkText)]]
          /\ lastCall' = "other"
     ELSE UNCHANGED <<messages, turns, lastCall>>
  /\ UNCHANGED <<input, loading, welcomeText, file, voiceMode, recording,
                 welcomeIndex, sessions, captures, speechQueue>>

\* line 124, then finally: the stream ends
StreamEnd(t) ==
  /\ turns[t].pc = "streaming"
  /\ speechQueue' = Speak(t, speechQueue)
  /\ turns' = [turns EXCEPT ![t] =
       [@ EXCEPT !.pc = "done", !.outcome = "ok",
                 !.spoken = Spoken(t, turns[t].text)]]
  /\ Finally
  /\ lastCall' = "other"
  /\ UNCHANGED <<messages, input, welcomeText, recording, welcomeIndex,
                 sessions, captures>>

\* line 112 throws: the stream fails
StreamFail(t) ==
  /\ turns[t].pc = "streaming"
  /\ Catch(t)

\* every continuation of turn t
TurnStep(t) ==
  \/ EncodeResolve(t)
  \/ EncodeReject(t)
  \/ \E reply \in Replies : GenerateOk(t, reply)
  \/ GenerateFail(t)
  \/ StreamOpen(t)
  \/ RequestFail(t)
  \/ \E chunkText \in Deltas(t, Len(turns[t].delivered) + 1) :
       Chunk(t, chunkText)
  \/ StreamEnd(t)
  \/ StreamFail(t)

\* ------------------------------------------------------------------ spec
Next ==
  \/ WelcomeTick
  \/ \E v \in Inputs : SetInput(v)
  \/ \E f \in Files : SetFile(f)
  \/ RemoveFile
  \/ ClickSend
  \/ handleKeyDown
  \/ \E t \in Turns : EncodeResolve(t)
  \/ \E t \in Turns : EncodeReject(t)
  \/ \E t \in Turns, reply \in Replies : GenerateOk(t, reply)
  \/ \E t \in Turns : GenerateFail(t)
  \/ \E t \in Turns : StreamOpen(t)
  \/ \E t \in Turns : RequestFail(t)
  \/ \E t \in Turns :
       \E chunkText \in Deltas(t, Len(turns[t].delivered) + 1) :
         Chunk(t, chunkText)
  \/ \E t \in Turns : StreamEnd(t)
  \/ \E t \in Turns : StreamFail(t)
  \/ startListening
  \/ \E tr \in Transcripts, over \in BOOLEAN : OnResult(tr, over)
  \/ OnError
  \/ OnEnd
  \/ stopSpeaking
  \/ UtteranceEnd

Spec == Init /\ [][Next]_vars

\* The submission turns without the speech handlers, which write none of
\* messages, loading, file and turns.
NextTurns ==
  \/ WelcomeTick
  \/ \E v \in Inputs : SetInput(v)
  \/ \E f \in Files : SetFile(f)
  \/ RemoveFile
  \/ ClickSend
  \/ handleKeyDown
  \/ \E t \in Turns : TurnStep(t)

\* Every pending promise settles and every stream is finite: the continuation
\* of an in-flight turn eventually runs.
FairSpec ==
  /\ Init
  /\ [][NextTurns]_vars
  /\ \A t \in Turns : WF_vars(TurnStep(t))

\* ------------------------------------------------------------------ claims
\* blank in the sense of the claims: empty or whitespace-only
Blank(s) == \A i \in 1..Len(s) : s[i] = " "

Done(t) == turns[t].pc = "done"
Completes(t) == turns[t].pc # "done" /\ turns'[t].pc = "done"

\* C3: a submission with blank text and no pending attachment changes
\* nothing: the timeline, the input, the pending attachment, loading,
\* voiceMode and recording keep their values and no turn (so no Gateway
\* request and no file read) is started.
C3_BlankSubmissionIsNoOp ==
  [][(sendMessage /\ Blank(input) /\ file = None)
       => UNCHANGED <<messages, input, file, loading, voiceMode, recording,
                      turns>>]_vars

\* a whitespace-only submission was just rejected
C3_Witness ==
  /\ lastCall = "rejected"
  /\ input = <<" ">>
  /\ file = None

\* C4: a turn narrates at most once, only in the step that gives its reply
\* the final text (it narrates that text), and only if voiceMode was true
\* when the turn was submitted.
C4_NarrationOncePerTurn ==
  \A t \in Turns :
    /\ Len(turns[t].spoken) <= 1
    /\ turns[t].spoken # <<>> =>
         /\ turns[t].voiceMode
         /\ Done(t)
         /\ turns[t].outcome = "ok"
         /\ turns[t].spoken = <<turns[t].text>>
    /\ (Done(t) /\ ~turns[t].voiceMode) => turns[t].spoken = <<>>

\* a voice-armed turn narrated its streamed reply although the other turn,
\* submitted without voice, has completed too and narrated nothing
C4_Witness ==
  \E t, u \in Turns :
    /\ t # u
    /\ Done(t) /\ turns[t].voiceMode
    /\ turns[t].spoken = <<turns[t].text>>
    /\ Len(turns[t].delivered) = MaxDeltas
    /\ Done(u) /\ ~turns[u].voiceMode /\ turns[u].outcome = "ok"
    /\ turns[u].spoken = <<>>

\* C5: a turn that carries a file and fails (in the file read or in the
\* single-shot request) has appended exactly one Bot message, the fixed
\* error text, and has narrated nothing.
C5_FileTurnFailure ==
  \A t \in Turns :
    (Done(t) /\ turns[t].file # None /\ turns[t].outcome = "fail") =>
      /\ turns[t].appended = <<ErrorText>>
      /\ turns[t].spoken = <<>>

\* a voice-armed file turn failed in the request, after its file was read
C5_Witness ==
  \E t \in Turns :
    /\ Done(t) /\ turns[t].file # None /\ turns[t].outcome = "fail"
    /\ turns[t].requests = 1
    /\ turns[t].voiceMode
    /\ messages # <<>> /\ messages[Len(messages)] = BotMsg(ErrorText)

\* C6: the step that completes a turn, on any of the four paths, leaves the
\* pending attachment empty, loading false and voiceMode false.
C6_CompletionResetsFlags ==
  [][(\E t \in Turns : Completes(t))
       => (file' = None /\ loading' = FALSE /\ voiceMode' = FALSE)]_vars

\* a failed file turn and a successful streaming turn have completed
C6_Witness ==
  /\ \E t \in Turns :
       Done(t) /\ turns[t].file # None /\ turns[t].outcome = "fail"
  /\ \E t \in Turns :
       Done(t) /\ turns[t].file = None /\ turns[t].outcome = "ok"
  /\ file = None /\ ~loading /\ ~voiceMode

Streaming(t) == turns[t].pc = "streaming"

\* the timeline msgs holds, at the index turn record trn took for its reply,
\* a Bot message whose text is the concatenation of the deltas delivered to trn
HoldsOwnReply(msgs, trn) ==
  /\ trn.botIndex + 1 <= Len(msgs)
  /\ msgs[trn.botIndex + 1] = BotMsg(Concat(trn.delivered))

IsPrefix(a, b) == Len(a) <= Len(b) /\ SubSeq(b, 1, Len(a)) = a

\* C1: when a text-only turn completes successfully, the Bot message it
\* opened in the timeline has the in-order concatenation of the delivered
\* deltas as its text, and the turn has appended exactly one Bot message.
C1_StreamSuccessText ==
  [][\A t \in Turns :
       (Completes(t) /\ turns[t].file = None /\ turns'[t].outcome = "ok")
         => /\ HoldsOwnReply(messages', turns'[t])
            /\ Len(turns'[t].appended) = 1]_vars

\* C2: when a text-only turn fails, in the request or in the stream, the
\* timeline holds after its completion the turn's Bot message with exactly
\* the text delivered before the failure, and the turn has appended after it
\* exactly one Bot message, the fixed error text, which ends the timeline.
C2_StreamFailureKeepsPartial ==
  [][\A t \in Turns :
       (Completes(t) /\ turns[t].file = None /\ turns'[t].outcome = "fail")
         => /\ HoldsOwnReply(messages', turns'[t])
            /\ turns'[t].appended = <<<<>>, ErrorText>>
            /\ messages'[Len(messages')] = BotMsg(ErrorText)
            /\ turns'[t].botIndex + 1 < Len(messages')]_vars

\* C7: at most one message of the timeline is in flight, i.e. at most one
\* turn has an open streaming reply.
C7_AtMostOneInFlight ==
  Cardinality({t \in Turns : Streaming(t)}) <= 1

\* C8: the timeline is append-only: no step shortens it, every message
\* keeps its index and role, and a text changes only for the in-flight Bot
\* message of a streaming turn, by a delta appended to its end.
C8_AppendOnly ==
  [][/\ Len(messages') >= Len(messages)
     /\ \A i \in 1..Len(messages) :
          i <= Len(messages') =>
            /\ messages'[i].role = messages[i].role
            /\ messages'[i].text # messages[i].text =>
                 /\ messages[i].role = "bot"
                 /\ \E t \in Turns : Streaming(t) /\ turns[t].botIndex + 1 = i
                 /\ IsPrefix(messages[i].text, messages'[i].text)]_vars

\* C9: a delta of a streaming turn is written into that turn's own message
\* and nowhere else: the step that delivers it changes no timeline entry
\* but the one that held the turn's text so far, which then holds the
\* concatenation of the turn's deltas in arrival order.
C9_DeltasStayInOwnMessage ==
  [][\A t \in Turns :
       (Streaming(t) /\ turns'[t].delivered # turns[t].delivered)
         => /\ \A i \in 1..Len(messages) :
                 messages'[i] # messages[i] =>
                   /\ i = turns[t].botIndex + 1
                   /\ messages[i] = BotMsg(Concat(turns[t].delivered))
            /\ HoldsOwnReply(messages', turns'[t])]_vars

\* C10: every accepted turn eventually completes, and the state in which it
\* has completed has loading false; a submission with non-blank text is
\* never refused, whatever the earlier turns did: it appends its User
\* message, clears the input and sets loading.
C10_TurnsReturnToIdle ==
  /\ \A t \in Turns : InFlight(t) ~> (Done(t) /\ ~loading)
  /\ []((~Blank(input) /\ NumTurns < MaxTurns) => ENABLED handleKeyDown)
  /\ [][(sendMessage /\ ~Blank(input))
          => /\ messages' = Append(messages, UserMsg(input, file))
             /\ input' = <<>>
             /\ loading']_vars

\* after a turn that failed, a second submission was accepted and completed
C10_Witness ==
  /\ Done(1) /\ turns[1].outcome = "fail"
  /\ Done(2)
  /\ ~loading
  /\ \E i \in 1..Len(messages) : messages[i] = UserMsg(turns[2].input, None)

\* the step is a sendMessage call that passes line 76, as the claims state
\* the test: the text is not blank or a file is pending
Accepts == sendMessage /\ ~(Blank(input) /\ file = None)

\* C11: an accepted submission with a file and blank text (empty or
\* whitespace-only) appends a User message whose text is the placeholder
\* label; an accepted submission with non-blank text appends a User message
\* with the submitted text.
C11_UserMessageText ==
  [][Accepts =>
       messages' = Append(messages,
                          UserMsg(IF Blank(input) THEN FileLabel ELSE input,
                                  file))]_vars

\* C12: the route of a turn is fixed by the file it was submitted with.  A
\* turn submitted with a file issues only a single-shot request, carrying
\* that file, never opens a streaming reply, and on success has appended
\* exactly one Bot message, the reply; a turn submitted without a file
\* issues only a streaming request.  Changes of the pending file while the
\* turn is in flight change neither.
C12_RouteFixedAtSubmission ==
  /\ [][Accepts =>
          /\ turns'[NumTurns + 1].file = file
          /\ turns'[NumTurns + 1].input = input]_vars
  /\ [](\A t \in Turns :
          /\ turns[t].file # None =>
               /\ turns[t].pc \in {"encoding", "generating", "done"}
               /\ \A i \in 1..Len(turns[t].sent) :
                    turns[t].sent[i] = SingleShot(turns[t].input, turns[t].file)
               /\ (Done(t) /\ turns[t].outcome = "ok") =>
                    /\ turns[t].appended = <<turns[t].text>>
                    /\ turns[t].text \in Replies
          /\ (turns[t].file = None /\ turns[t].pc # "idle") =>
               /\ turns[t].pc \in {"requesting", "streaming", "done"}
               /\ turns[t].sent = <<StreamRequest(turns[t].input)>>)

\* a turn submitted with a file has issued its single-shot request with that
\* file although no file is pending any more
C12_Witness ==
  \E t \in Turns :
    /\ turns[t].pc = "generating"
    /\ turns[t].file # None
    /\ file = None
    /\ turns[t].sent = <<SingleShot(turns[t].input, turns[t].file)>>

\* C13: a capture session that ends in a recognition error appends exactly
\* one Bot message with the fixed error text to the timeline.
C13_CaptureErrorIsReported ==
  [][OnError => messages' = Append(messages, BotMsg(ErrorText))]_vars

\* C14: stopSpeaking is idempotent (the state it leaves is one it would not
\* change), and when no narration is playing or queued it leaves the
\* timeline, loading, voiceMode, recording, the pending file and the input
\* unchanged.
C14_CancelPlaybackIsNoOp ==
  [][stopSpeaking =>
       /\ speechQueue' = 0 /\ recording' = FALSE
       /\ speechQueue = 0 =>
            UNCHANGED <<messages, loading, voiceMode, recording, file,
                        input>>]_vars

\* C15: a capture session that has delivered its outcome (a transcript, an
\* error or an end) leaves no session listening and recording false.
C15_CaptureReturnsToIdle ==
  sessions = 0 => ~recording

\* C16: narration armed by a successful capture is still armed at the next
\* accepted submission, and the reply of that turn is narrated when it
\* succeeds: voiceMode, set only by a capture's result, is not reset while
\* no turn has been submitted with it, and every turn submitted with it
\* narrates its successful reply.
C16_VoiceInputArmsNarration ==
  /\ [](\A t \in Turns :
          (Done(t) /\ turns[t].voiceMode /\ turns[t].outcome = "ok") =>
            turns[t].spoken = <<turns[t].text>>)
  /\ [][(voiceMode /\ ~voiceMode') =>
          \E u \in Turns : turns[u].pc # "idle" /\ turns[u].voiceMode]_vars

\* C17: in every reachable state the timeline is not empty and its first
\* message is the greeting.
C17_GreetingIsFirst ==
  /\ messages # <<>>
  /\ messages[1] = BotMsg(WelcomeMsg)

\* C18: a turn issues at most one file read and at most one Gateway request,
\* and a completed turn (failed or not) issues nothing more: its record
\* never changes again.
C18_NoAutomaticRetry ==
  /\ [](\A t \in Turns :
          /\ turns[t].reads <= 1
          /\ turns[t].requests <= 1
          /\ Len(turns[t].sent) = turns[t].requests)
  /\ [][\A t \in Turns : Done(t) => turns'[t] = turns[t]]_vars

\* a turn failed in its single-shot request, after one read and one
\* request, and the other turn was submitted afterwards by the user
C18_Witness ==
  /\ Done(1) /\ turns[1].outcome = "fail"
  /\ turns[1].reads = 1 /\ turns[1].requests = 1
  /\ turns[2].pc # "idle"

\* C19: loading is true in every state in which an accepted turn has not
\* completed.
C19_LoadingWhileInFlight ==
  (\E t \in Turns : InFlight(t)) => loading

\* C20: a pending file is cleared only by the user removing it or by the
\* completion of the turn that was submitted with it.
C20_CompletionClearsOwnFile ==
  [][(file # None /\ file' = None) =>
       \/ turns' = turns
       \/ \E t \in Turns : Completes(t) /\ turns[t].file = file]_vars

====
